---- MODULE Spec2Model ----
(***************************************************************************)
(* A model of the adaptive fabric (src/fabric.py, class AdaptiveFabric)    *)
(* and of the agents it registers (src/agent.py, class AgentBase).         *)
(*                                                                         *)
(* A method is an operator from the fabric's fields to the fields after   *)
(* the call, together with the exception the caller sees (raised) and the  *)
(* level of the last record the method logged (log).  In Spec,             *)
(* LifecycleSpec and MessagingSpec every public method is one atomic       *)
(* action: the calls are issued one after the other by a single caller.    *)
(*                                                                         *)
(* Spec is the fabric's interface: register_agent, connect_agents,         *)
(* disconnect_agents and relay_message in any order, and a call of         *)
(* unregister, which the class does not define.  LifecycleSpec is the      *)
(* registry with the agents' lifecycle: register_agent, connect_agents,    *)
(* and activate and deactivate on the registered agents.  MessagingSpec    *)
(* is register_agent and connect_agents with send_message and              *)
(* receive_message on the registered agents.                               *)
(*                                                                         *)
(* AgentSpec and ConcurrentSpec have two threads and take the methods      *)
(* statement by statement: AgentSpec activate and deactivate on one agent  *)
(* of a subclass, ConcurrentSpec register_agent and disconnect_agents on   *)
(* one fabric.                                                             *)
(*                                                                         *)
(* fabric.py uses the names AgentBase and datetime without importing       *)
(* them; they are read as agent.py's AgentBase and the standard datetime.  *)
(* Line 75 of fabric.py, the last statement of relay_message, breaks off   *)
(* after "self.agents[source": it is read as the forwarding call           *)
(* self.agents[source_agent].send_message(target_agent, message).          *)
(***************************************************************************)
EXTENDS Integers, Sequences, FiniteSets, TLC

\* Agent ids are arbitrary Python strings; these three include ids that
\* contain the '_' the channel key is joined with.
Ids == {"a", "a_", "_a"}

Domains == {"nlp", "vision"}

Messages == {"hello"}

\* Most connections (successful connect_agents calls not yet undone) the
\* model lets the graph hold.
MaxEdges == 2

\* Most send_message calls the model records.
MaxSent == 2

\* Callers that run concurrently.
Threads == {"t1", "t2"}

\* agents, connections, communication_channels: the fabric's fields.
\* last: the call that completed last.
\* self: an agent object used on its own (None: there is none).
\* pc: for each thread, the call it is in or has completed, and where.
\* sent, received: the send_message calls that returned normally and the
\* contents receive_message returned, in order.
VARIABLES agents, connections, communication_channels, last,
          self, pc, sent, received

vars == <<agents, connections, communication_channels, last,
          self, pc, sent, received>>

----------------------------------------------------------------------------
(* Python values *)

None == "None"

\* {} : a dict with no keys
EmptyDict == [k \in {} |-> None]

\* d[k] = v
DictSet(d, k, v) == [x \in (DOMAIN d) \cup {k} |-> IF x = k THEN v ELSE d[x]]

\* del d[k]
DictDel(d, k) == [x \in (DOMAIN d) \ {k} |-> d[x]]

\* x in lst
Contains(lst, x) == \E i \in 1..Len(lst) : lst[i] = x

\* lst.count(x)
Count(lst, x) == Cardinality({i \in 1..Len(lst) : lst[i] = x})

\* lst.remove(x), for a list that holds x: the first occurrence goes
ListRemove(lst, x) ==
    LET i == CHOOSE i \in 1..Len(lst) :
                 lst[i] = x /\ \A j \in 1..(i - 1) : lst[j] # x
    IN  SubSeq(lst, 1, i - 1) \o SubSeq(lst, i + 1, Len(lst))

\* Reading d[k] of a defaultdict(list) inserts k with an empty list.
Touch(d, k) == IF k \in DOMAIN d THEN d ELSE DictSet(d, k, <<>>)

----------------------------------------------------------------------------
(* What the caller of a method sees *)

\* raise FabricConnectionError(f"Agent {agent_id} already registered")
Duplicate == "FabricConnectionError: already registered"

\* raise FabricConnectionError("Agents not found")
NotFound == "FabricConnectionError: Agents not found"

\* raise FabricConnectionError("Agents are not connected")
NotConnected == "FabricConnectionError: Agents are not connected"

\* list.remove(x) of a list without x
ValueError == "ValueError"

\* Looking up a method the class does not define
AttributeError == "AttributeError"
KeyError == "KeyError"

\* The fields of the fabric after a call, what the call raised (None: it
\* returned) and the level of the last record it logged.
Outcome(a, c, ch, raised, log) ==
    [agents |-> a, connections |-> c, communication_channels |-> ch,
     raised |-> raised, log |-> log]

----------------------------------------------------------------------------
(* src/agent.py *)

AgentBase(agent_id, domain) ==
    [agent_id |-> agent_id,
     domain |-> domain,
     communication_channel |-> None,
     resources |-> [cpu_usage |-> 0, memory_usage |-> 0,
                    active_connections |-> 0],
     status |-> "idle"]

\* The values the code assigns to status.
Statuses ==
    {"idle", "activating", "active", "deactivating", "inactive", "error"}

\* AgentBase._runtime_loop always raises.
runtime_loop == "NotImplementedError"

\* How a call of self._runtime_loop() can end: a subclass's loop returns
\* (None), or the loop raises as the base class's does.
LoopOutcomes == {None, runtime_loop}

\* A channel object assigned to communication_channel, and how its close()
\* can end: it returns (None) or raises.
Channel == "channel"
CloseError == "Exception"
CloseOutcomes == {None, CloseError}

\* The agent after activate(), loop being how _runtime_loop ended:
\* 'activating', then 'active' or 'error'.
activate(agent, loop) ==
    IF agent.status = "active" THEN agent
    ELSE LET activating == [agent EXCEPT !.status = "activating"]
         IN  IF loop = None
             THEN [activating EXCEPT !.status = "active"]
             ELSE [activating EXCEPT !.status = "error"]

deactivate_releasing_connections(agent, close) ==
    [agent EXCEPT !.status = "inactive",
                  !.resources.active_connections = @ - 1]

\* The agent after deactivate(), close being how the channel's close()
\* ends: a channel that is None is not closed.
deactivate(agent, close) ==
    IF agent.status = "inactive" THEN agent
    ELSE LET deactivating == [agent EXCEPT !.status = "deactivating"]
         IN  IF deactivating.communication_channel # None /\ close # None
             THEN [deactivating EXCEPT !.status = "error"]
             ELSE [deactivating EXCEPT !.status = "inactive"]

\* send_message: what is handed to the channel (None: nothing), what the
\* caller sees raised and the level logged.  Without a channel the
\* RuntimeError is caught and logged, and the method returns.
send_message(agent, recipient, message) ==
    IF agent.communication_channel = None
    THEN [sent |-> None, raised |-> None, log |-> "error"]
    ELSE [sent |-> <<recipient, message>>, raised |-> None, log |-> "debug"]

\* What communication_channel.recv() can hand to receive_message: nothing
\* (a falsy value, here the empty tuple), or a (recipient, content) pair.
RecvResults == {<<>>} \cup {<<id, m>> : id \in Ids, m \in Messages}

\* receive_message, message being what the channel's recv() returns: the
\* content returned (None: none), what the caller sees raised and the
\* level logged.  Without a channel, and for a message addressed to another
\* agent, the error is caught and logged, and None is returned.
receive_message(agent, message) ==
    IF agent.communication_channel = None
    THEN [returned |-> None, raised |-> None, log |-> "error"]
    ELSE IF message = <<>>
    THEN [returned |-> None, raised |-> None, log |-> None]
    ELSE IF message[1] # agent.agent_id
    THEN [returned |-> None, raised |-> None, log |-> "error"]
    ELSE [returned |-> message[2], raised |-> None, log |-> "debug"]

----------------------------------------------------------------------------
(* src/fabric.py *)

\* datetime.now().isoformat(): stored in the channel, read by no method;
\* every instant is the one opaque value.
isoformat == "isoformat"

\* f"{source_agent}_{target_agent}"
ChannelKey(source_agent, target_agent) == source_agent \o "_" \o target_agent

\* register_agent without the test of line 31: the record is overwritten.
register_agent_overwrite(F, agent_id, domain) ==
    Outcome(DictSet(F.agents, agent_id, AgentBase(agent_id, domain)),
            F.connections, F.communication_channels, None, "info")

register_agent(F, agent_id, domain) ==
    IF agent_id \in DOMAIN F.agents
    THEN Outcome(F.agents, F.connections, F.communication_channels,
                 Duplicate, None)
    ELSE Outcome(DictSet(F.agents, agent_id, AgentBase(agent_id, domain)),
                 F.connections, F.communication_channels, None, "info")

\* connect_agents without line 51: the target's list is not appended to.
connect_agents_one_sided(F, source_agent, target_agent, timestamp) ==
    IF source_agent \notin DOMAIN F.agents \/ target_agent \notin DOMAIN F.agents
    THEN Outcome(F.agents, F.connections, F.communication_channels,
                 NotFound, None)
    ELSE LET channel == [source |-> source_agent, target |-> target_agent,
                         timestamp |-> timestamp]
             ch == DictSet(F.communication_channels,
                           ChannelKey(source_agent, target_agent), channel)
             c0 == Touch(F.connections, source_agent)
             c1 == [c0 EXCEPT ![source_agent] = Append(@, target_agent)]
         IN  Outcome(F.agents, c1, ch, None, "info")

connect_agents(F, source_agent, target_agent, timestamp) ==
    IF source_agent \notin DOMAIN F.agents \/ target_agent \notin DOMAIN F.agents
    THEN Outcome(F.agents, F.connections, F.communication_channels,
                 NotFound, None)
    ELSE LET channel == [source |-> source_agent, target |-> target_agent,
                         timestamp |-> timestamp]
             ch == DictSet(F.communication_channels,
                           ChannelKey(source_agent, target_agent), channel)
             c0 == Touch(F.connections, source_agent)
             c1 == [c0 EXCEPT ![source_agent] = Append(@, target_agent)]
             c2 == Touch(c1, target_agent)
             c3 == [c2 EXCEPT ![target_agent] = Append(@, source_agent)]
         IN  Outcome(F.agents, c3, ch, None, "info")

disconnect_agents(F, source_agent, target_agent) ==
    IF ChannelKey(source_agent, target_agent) \notin DOMAIN F.communication_channels
    THEN Outcome(F.agents, F.connections, F.communication_channels,
                 NotConnected, None)
    ELSE LET ch == DictDel(F.communication_channels,
                           ChannelKey(source_agent, target_agent))
             c0 == Touch(F.connections, source_agent)
         IN  IF ~Contains(c0[source_agent], target_agent)
             THEN Outcome(F.agents, c0, ch, ValueError, None)
             ELSE LET c1 == [c0 EXCEPT ![source_agent] =
                                           ListRemove(@, target_agent)]
                      c2 == Touch(c1, target_agent)
                  IN  IF ~Contains(c2[target_agent], source_agent)
                      THEN Outcome(F.agents, c2, ch, ValueError, None)
                      ELSE Outcome(F.agents,
                                   [c2 EXCEPT ![target_agent] =
                                                  ListRemove(@, source_agent)],
                                   ch, None, "info")

\* relay_message without the test of lines 67-68.
relay_message_unchecked(F, source_agent, target_agent, message) ==
    LET c0 == Touch(F.connections, source_agent)
    IN  IF ~Contains(c0[source_agent], target_agent)
        THEN Outcome(F.agents, c0, F.communication_channels, None, "warning")
        ELSE Outcome(F.agents, c0, F.communication_channels, None,
                     send_message(F.agents[source_agent],
                                  target_agent, message).log)

relay_message(F, source_agent, target_agent, message) ==
    IF source_agent \notin DOMAIN F.agents \/ target_agent \notin DOMAIN F.agents
    THEN Outcome(F.agents, F.connections, F.communication_channels,
                 NotFound, None)
    ELSE LET c0 == Touch(F.connections, source_agent)
         IN  IF ~Contains(c0[source_agent], target_agent)
             THEN Outcome(F.agents, c0, F.communication_channels,
                          None, "warning")
             ELSE Outcome(F.agents, c0, F.communication_channels, None,
                          send_message(F.agents[source_agent],
                                       target_agent, message).log)

\* fabric.unregister(agent_id): AdaptiveFabric defines register_agent,
\* connect_agents, disconnect_agents and relay_message, and no method that
\* removes an agent; the lookup of the name fails.
unregister(F, agent_id) ==
    Outcome(F.agents, F.connections, F.communication_channels,
            AttributeError, None)

----------------------------------------------------------------------------
(* The state machine *)

Fabric == [agents |-> agents, connections |-> connections,
           communication_channels |-> communication_channels]

\* The last call: the method, what it raised and the level it logged last.
Call(op, raised, log) == [op |-> op, raised |-> raised, log |-> log]

\* The fabric's fields become those of outcome r.
Becomes(r) ==
    /\ agents' = r.agents
    /\ connections' = r.connections
    /\ communication_channels' = r.communication_channels

\* A thread's position: the method, the statement it is at, the method's
\* arguments and locals, and what the call raised once it is done.
At(op, at, args, raised) ==
    [op |-> op, at |-> at, args |-> args, raised |-> raised]

\* A thread that has not called anything.
Idle == At(None, "idle", <<>>, None)

\* AdaptiveFabric.__init__; no call has been made.
Init ==
    /\ agents = EmptyDict
    /\ connections = EmptyDict
    /\ communication_channels = EmptyDict
    /\ last = Call("init", None, None)
    /\ self = None
    /\ pc = [t \in Threads |-> Idle]
    /\ sent = <<>>
    /\ received = <<>>

RegisterAgent ==
    \E agent_id \in Ids, domain \in Domains :
        LET r == register_agent(Fabric, agent_id, domain)
        IN  /\ Becomes(r)
            /\ last' = Call("register_agent", r.raised, r.log)
            /\ UNCHANGED <<self, pc, sent, received>>

\* Number of connections the neighbour lists hold: each one is an entry in
\* two lists, or two entries in one.
Edges(c) ==
    LET RECURSIVE sum(_)
        sum(S) == IF S = {} THEN 0
                  ELSE LET k == CHOOSE k \in S : TRUE
                       IN  Len(c[k]) + sum(S \ {k})
    IN  sum(DOMAIN c) \div 2

ConnectAgents ==
    \E source_agent \in Ids, target_agent \in Ids :
        LET r == connect_agents(Fabric, source_agent, target_agent, isoformat)
        IN  /\ r.raised = None => Edges(connections) < MaxEdges
            /\ Becomes(r)
            /\ last' = Call("connect_agents", r.raised, r.log)
            /\ UNCHANGED <<self, pc, sent, received>>

DisconnectAgents ==
    \E source_agent \in Ids, target_agent \in Ids :
        LET r == disconnect_agents(Fabric, source_agent, target_agent)
        IN  /\ Becomes(r)
            /\ last' = Call("disconnect_agents", r.raised, r.log)
            /\ UNCHANGED <<self, pc, sent, received>>

RelayMessage ==
    \E source_agent \in Ids, target_agent \in Ids, message \in Messages :
        LET r == relay_message(Fabric, source_agent, target_agent, message)
        IN  /\ Becomes(r)
            /\ last' = Call("relay_message", r.raised, r.log)
            /\ UNCHANGED <<self, pc, sent, received>>

Unregister ==
    \E agent_id \in Ids :
        LET r == unregister(Fabric, agent_id)
        IN  /\ Becomes(r)
            /\ last' = Call("unregister", r.raised, r.log)
            /\ UNCHANGED <<self, pc, sent, received>>

\* activate() logs "Agent is activating" and then the failure.
Activate ==
    \E agent_id \in DOMAIN agents :
        /\ agents' = [agents EXCEPT ![agent_id] = activate(@, runtime_loop)]
        /\ last' = Call("activate", None,
                        IF agents[agent_id].status = "active"
                        THEN None ELSE "error")
        /\ UNCHANGED <<connections, communication_channels>>
        /\ UNCHANGED <<self, pc, sent, received>>

\* deactivate() logs "Agent is deactivating" and then a failure to close.
Deactivate ==
    \E agent_id \in DOMAIN agents :
      \E close \in IF agents[agent_id].communication_channel = None
                   THEN {None} ELSE CloseOutcomes :
        /\ agents' = [agents EXCEPT ![agent_id] = deactivate(@, close)]
        /\ last' = Call("deactivate", None,
                        IF agents[agent_id].status = "inactive" THEN None
                        ELSE IF agents'[agent_id].status = "error"
                        THEN "error" ELSE "info")
        /\ UNCHANGED <<connections, communication_channels>>
        /\ UNCHANGED <<self, pc, sent, received>>

\* agent.send_message(recipient, message) on a registered agent.
SendMessage ==
    \E agent_id \in DOMAIN agents, recipient \in Ids, message \in Messages :
        LET s == send_message(agents[agent_id], recipient, message)
        IN  /\ Len(sent) < MaxSent
            /\ sent' = IF s.raised = None
                       THEN Append(sent, [from |-> agent_id, to |-> recipient,
                                          content |-> message])
                       ELSE sent
            /\ last' = Call("send_message", s.raised, s.log)
            /\ UNCHANGED <<agents, connections, communication_channels,
                           self, pc, received>>

\* agent.receive_message() on a registered agent.
ReceiveMessage ==
    \E agent_id \in DOMAIN agents, message \in RecvResults :
        LET r == receive_message(agents[agent_id], message)
        IN  /\ r.returned # None => Len(received) < MaxSent
            /\ received' = IF r.returned # None
                           THEN Append(received, [by |-> agent_id,
                                                  content |-> r.returned])
                           ELSE received
            /\ last' = Call("receive_message", r.raised, r.log)
            /\ UNCHANGED <<agents, connections, communication_channels,
                           self, pc, sent>>

Next ==
    \/ RegisterAgent
    \/ ConnectAgents
    \/ DisconnectAgents
    \/ RelayMessage
    \/ Unregister

Spec == Init /\ [][Next]_vars

LifecycleNext ==
    \/ RegisterAgent
    \/ ConnectAgents
    \/ Activate
    \/ Deactivate

LifecycleSpec == Init /\ [][LifecycleNext]_vars

----------------------------------------------------------------------------
(* One agent, an instance of a subclass of AgentBase, on which two threads
   call activate() and deactivate().  Each statement that reads or writes
   status is a step; a thread's position is named by the line of agent.py
   it is about to execute, and its args hold the status it read at the
   method's first line and then how the call it made ended. *)

\* Subclass(agent_id, domain): AgentBase.__init__ run by a subclass.
AgentInit ==
    /\ agents = EmptyDict
    /\ connections = EmptyDict
    /\ communication_channels = EmptyDict
    /\ last = Call("init", None, None)
    /\ \E agent_id \in Ids, domain \in Domains :
           self = AgentBase(agent_id, domain)
    /\ pc = [t \in Threads |-> Idle]
    /\ sent = <<>>
    /\ received = <<>>

Free(t) == pc[t].at \in {"idle", "returned"}

Goto(t, at) == pc' = [pc EXCEPT ![t].at = at]

\* The owner of the agent assigns its communication_channel.
SetChannel ==
    /\ self.communication_channel = None
    /\ self' = [self EXCEPT !.communication_channel = Channel]
    /\ UNCHANGED <<agents, connections, communication_channels, last, pc,
                   sent, received>>

\* activate(), line 48: the call and its check of status.
ActivateCall(t) ==
    /\ Free(t)
    /\ IF self.status = "active"
       THEN /\ pc' = [pc EXCEPT ![t] = At("activate", "returned",
                                          <<self.status>>, None)]
            /\ last' = Call("activate", None, None)
       ELSE /\ pc' = [pc EXCEPT ![t] = At("activate", "line53",
                                          <<self.status>>, None)]
            /\ UNCHANGED last
    /\ UNCHANGED <<agents, connections, communication_channels, self,
                   sent, received>>

\* activate(), lines 52-53: self.status = 'activating'.
ActivateBegin(t) ==
    /\ pc[t].at = "line53"
    /\ self' = [self EXCEPT !.status = "activating"]
    /\ Goto(t, "line56")
    /\ UNCHANGED <<agents, connections, communication_channels, last,
                   sent, received>>

\* activate(), line 56: self._runtime_loop() returns or raises.
RuntimeLoop(t) ==
    /\ pc[t].at = "line56"
    /\ \E loop \in LoopOutcomes :
           pc' = [pc EXCEPT ![t].at = IF loop = None THEN "line57"
                                     ELSE "line60",
                            ![t].args = Append(@, loop)]
    /\ UNCHANGED <<agents, connections, communication_channels, last, self,
                   sent, received>>

ActivateEndAlwaysActive(t) ==
    /\ pc[t].at \in {"line57", "line60"}
    /\ self' = [self EXCEPT !.status = "active"]
    /\ last' = Call("activate", None, "info")
    /\ Goto(t, "returned")
    /\ UNCHANGED <<agents, connections, communication_channels,
                   sent, received>>

\* activate(), line 57 or lines 59-60: the last assignment to status; the
\* exception is logged, and the method returns.
ActivateEnd(t) ==
    /\ pc[t].at \in {"line57", "line60"}
    /\ self' = [self EXCEPT !.status = IF pc[t].at = "line57"
                                       THEN "active" ELSE "error"]
    /\ last' = Call("activate", None,
                    IF pc[t].at = "line57" THEN "info" ELSE "error")
    /\ Goto(t, "returned")
    /\ UNCHANGED <<agents, connections, communication_channels,
                   sent, received>>

\* deactivate(), line 64: the call and its check of status.
DeactivateCall(t) ==
    /\ Free(t)
    /\ IF self.status = "inactive"
       THEN /\ pc' = [pc EXCEPT ![t] = At("deactivate", "returned",
                                          <<self.status>>, None)]
            /\ last' = Call("deactivate", None, None)
       ELSE /\ pc' = [pc EXCEPT ![t] = At("deactivate", "line68",
                                          <<self.status>>, None)]
            /\ UNCHANGED last
    /\ UNCHANGED <<agents, connections, communication_channels, self,
                   sent, received>>

\* deactivate(), lines 67-68: self.status = 'deactivating'.
DeactivateBegin(t) ==
    /\ pc[t].at = "line68"
    /\ self' = [self EXCEPT !.status = "deactivating"]
    /\ Goto(t, "line72")
    /\ UNCHANGED <<agents, connections, communication_channels, last,
                   sent, received>>

\* deactivate(), lines 72-73: a channel that is set is closed, and close()
\* returns or raises.
Close(t) ==
    /\ pc[t].at = "line72"
    /\ \E close \in CloseOutcomes :
           LET failed == self.communication_channel # None /\ close # None
           IN  pc' = [pc EXCEPT ![t].at = IF failed THEN "line78"
                                         ELSE "line75",
                                ![t].args = Append(@, IF failed THEN close
                                                      ELSE None)]
    /\ UNCHANGED <<agents, connections, communication_channels, last, self,
                   sent, received>>

\* deactivate(), line 75 or lines 77-78: the last assignment to status; the
\* exception is logged, and the method returns.
DeactivateEnd(t) ==
    /\ pc[t].at \in {"line75", "line78"}
    /\ self' = [self EXCEPT !.status = IF pc[t].at = "line75"
                                       THEN "inactive" ELSE "error"]
    /\ last' = Call("deactivate", None,
                    IF pc[t].at = "line75" THEN "info" ELSE "error")
    /\ Goto(t, "returned")
    /\ UNCHANGED <<agents, connections, communication_channels,
                   sent, received>>

AgentNext ==
    \/ SetChannel
    \/ \E t \in Threads :
           \/ ActivateCall(t)
           \/ ActivateBegin(t)
           \/ RuntimeLoop(t)
           \/ ActivateEnd(t)
           \/ DeactivateCall(t)
           \/ DeactivateBegin(t)
           \/ Close(t)
           \/ DeactivateEnd(t)

AgentSpec == AgentInit /\ [][AgentNext]_vars

----------------------------------------------------------------------------
(* One fabric on which two threads call register_agent, connect_agents and
   disconnect_agents; the fabric has no lock.  register_agent and
   disconnect_agents are taken statement by statement, a thread's position
   being the line of fabric.py it is about to execute and its args the
   call's arguments; connect_agents is taken in one step. *)

\* The ids the two threads pass.
ConcurrentIds == {"a", "a_"}

Return(t, raised) == pc' = [pc EXCEPT ![t].at = "returned", ![t].raised = raised]

\* register_agent, lines 31-32: the call and its test of the registry.
RegisterCall(t) ==
    /\ Free(t)
    /\ \E agent_id \in ConcurrentIds, domain \in Domains :
           IF agent_id \in DOMAIN agents
           THEN /\ pc' = [pc EXCEPT ![t] = At("register_agent", "returned",
                                              <<agent_id, domain>>,
                                              Duplicate)]
                /\ last' = Call("register_agent", Duplicate, None)
           ELSE /\ pc' = [pc EXCEPT ![t] = At("register_agent", "line34",
                                              <<agent_id, domain>>, None)]
                /\ UNCHANGED last
    /\ UNCHANGED <<agents, connections, communication_channels, self,
                   sent, received>>

\* register_agent, lines 34-35: the agent is stored and the call returns.
RegisterAssign(t) ==
    /\ pc[t].at = "line34"
    /\ agents' = DictSet(agents, pc[t].args[1],
                         AgentBase(pc[t].args[1], pc[t].args[2]))
    /\ last' = Call("register_agent", None, "info")
    /\ Return(t, None)
    /\ UNCHANGED <<connections, communication_channels, self,
                   sent, received>>

\* connect_agents, lines 39-52, in one step.
Connect(t) ==
    /\ Free(t)
    /\ \E source_agent \in ConcurrentIds, target_agent \in ConcurrentIds :
           LET r == connect_agents(Fabric, source_agent, target_agent,
                                   isoformat)
           IN  /\ r.raised = None => Edges(connections) < MaxEdges
               /\ Becomes(r)
               /\ last' = Call("connect_agents", r.raised, r.log)
               /\ pc' = [pc EXCEPT ![t] = At("connect_agents", "returned",
                                             <<source_agent, target_agent>>,
                                             r.raised)]
    /\ UNCHANGED <<self, sent, received>>

\* disconnect_agents, lines 56-57: the call and its test of the channel
\* table.
DisconnectCall(t) ==
    /\ Free(t)
    /\ \E source_agent \in ConcurrentIds, target_agent \in ConcurrentIds :
           IF ChannelKey(source_agent, target_agent)
                  \notin DOMAIN communication_channels
           THEN /\ pc' = [pc EXCEPT ![t] = At("disconnect_agents", "returned",
                                              <<source_agent, target_agent>>,
                                              NotConnected)]
                /\ last' = Call("disconnect_agents", NotConnected, None)
           ELSE /\ pc' = [pc EXCEPT ![t] = At("disconnect_agents", "line60",
                                              <<source_agent, target_agent>>,
                                              None)]
                /\ UNCHANGED last
    /\ UNCHANGED <<agents, connections, communication_channels, self,
                   sent, received>>

\* disconnect_agents, line 60: del of the channel entry; a key that is no
\* longer there raises KeyError.
DisconnectDel(t) ==
    /\ pc[t].at = "line60"
    /\ LET key == ChannelKey(pc[t].args[1], pc[t].args[2])
       IN  IF key \in DOMAIN communication_channels
           THEN /\ communication_channels' =
                       DictDel(communication_channels, key)
                /\ Goto(t, "line61")
                /\ UNCHANGED last
           ELSE /\ Return(t, KeyError)
                /\ last' = Call("disconnect_agents", KeyError, None)
                /\ UNCHANGED communication_channels
    /\ UNCHANGED <<agents, connections, self, sent, received>>

\* disconnect_agents, line 61: the target is removed from the source's
\* list; a list that does not hold it raises ValueError.
DisconnectRemoveTarget(t) ==
    /\ pc[t].at = "line61"
    /\ LET c0 == Touch(connections, pc[t].args[1])
       IN  IF Contains(c0[pc[t].args[1]], pc[t].args[2])
           THEN /\ connections' = [c0 EXCEPT ![pc[t].args[1]] =
                                       ListRemove(@, pc[t].args[2])]
                /\ Goto(t, "line62")
                /\ UNCHANGED last
           ELSE /\ connections' = c0
                /\ Return(t, ValueError)
                /\ last' = Call("disconnect_agents", ValueError, None)
    /\ UNCHANGED <<agents, communication_channels, self, sent, received>>

\* disconnect_agents, lines 62-63: the source is removed from the target's
\* list and the call returns.
DisconnectRemoveSource(t) ==
    /\ pc[t].at = "line62"
    /\ LET c0 == Touch(connections, pc[t].args[2])
       IN  IF Contains(c0[pc[t].args[2]], pc[t].args[1])
           THEN /\ connections' = [c0 EXCEPT ![pc[t].args[2]] =
                                       ListRemove(@, pc[t].args[1])]
                /\ Return(t, None)
                /\ last' = Call("disconnect_agents", None, "info")
           ELSE /\ connections' = c0
                /\ Return(t, ValueError)
                /\ last' = Call("disconnect_agents", ValueError, None)
    /\ UNCHANGED <<agents, communication_channels, self, sent, received>>

ConcurrentNext ==
    \E t \in Threads :
        \/ RegisterCall(t)
        \/ RegisterAssign(t)
        \/ Connect(t)
        \/ DisconnectCall(t)
        \/ DisconnectDel(t)
        \/ DisconnectRemoveTarget(t)
        \/ DisconnectRemoveSource(t)

ConcurrentSpec == Init /\ [][ConcurrentNext]_vars

\* Messaging: agents are registered and connected, and messages are sent
\* and received on the agents.
MessagingNext ==
    \/ RegisterAgent
    \/ ConnectAgents
    \/ SendMessage
    \/ ReceiveMessage

MessagingSpec == Init /\ [][MessagingNext]_vars

----------------------------------------------------------------------------
(* Reading the connection graph *)

\* The neighbours of agent a: the members of connections[a], none for an
\* id the defaultdict holds no list for.
Neighbours(c, a) ==
    IF a \in DOMAIN c THEN {c[a][i] : i \in 1..Len(c[a])} ELSE {}

\* How many times b occurs in connections[a].
Occurrences(c, a, b) == IF a \in DOMAIN c THEN Count(c[a], b) ELSE 0

\* An outcome that left the registry, the graph and the channel table as
\* they are.
Untouched(r) ==
    /\ r.agents = agents
    /\ r.connections = connections
    /\ r.communication_channels = communication_channels

----------------------------------------------------------------------------
(* Claims *)

\* C1: every registered agent's resources['active_connections'] equals the
\* number of its neighbours in the connection graph.
C1_CounterEqualsDegree ==
    \A a \in DOMAIN agents :
        agents[a].resources.active_connections
            = Cardinality(Neighbours(connections, a))

\* C2: for every pair of agents a and b, communication_channels holds an
\* entry for the pair (under either order of the two ids) if and only if b
\* is a neighbour of a.
C2_ChannelIffEdge ==
    \A a \in DOMAIN agents, b \in DOMAIN agents :
        (\/ ChannelKey(a, b) \in DOMAIN communication_channels
         \/ ChannelKey(b, a) \in DOMAIN communication_channels)
            <=> b \in Neighbours(connections, a)

\* The failure the specification names for connecting a connected pair;
\* fabric.py raises nothing of the kind.
AlreadyConnected == "FabricConnectionError: already connected"

\* C3: connect_agents(a, b) on two agents that are already connected, in
\* either argument order, fails with AlreadyConnected and leaves exactly one
\* a-b edge: b once among a's neighbours and a once among b's.
C3_SecondConnectFails ==
    \A a \in DOMAIN agents, b \in DOMAIN agents :
        (a # b /\ b \in Neighbours(connections, a)) =>
            LET r == connect_agents(Fabric, a, b, isoformat)
            IN  /\ r.raised = AlreadyConnected
                /\ Occurrences(r.connections, a, b) = 1
                /\ Occurrences(r.connections, b, a) = 1

\* C4: the connection graph has no self-loop: no agent id is a member of
\* its own neighbour list.
C4_NoSelfLoop ==
    \A a \in Ids : a \notin Neighbours(connections, a)

\* C5: the connection graph is symmetric: b occurs in connections[a] as
\* many times as a occurs in connections[b].
C5_Symmetric ==
    \A a \in Ids, b \in Ids :
        Occurrences(connections, a, b) = Occurrences(connections, b, a)

\* C5 witness: a disconnect_agents call succeeded and left an edge between
\* two different agents behind.
C5_Witness ==
    /\ last.op = "disconnect_agents"
    /\ last.raised = None
    /\ \E a \in Ids, b \in Ids :
           a # b /\ Occurrences(connections, a, b) >= 1

\* The fabric's fields of an outcome.
After(r) == [agents |-> r.agents, connections |-> r.connections,
             communication_channels |-> r.communication_channels]

\* C6: where registered agents a and b are not connected, connect_agents(a, b)
\* followed by disconnect_agents(a, b) restores every agent's neighbour set
\* and the entries of communication_channels.
C6_ConnectDisconnectRoundTrip ==
    \A a \in DOMAIN agents, b \in DOMAIN agents :
        (/\ b \notin Neighbours(connections, a)
         /\ a \notin Neighbours(connections, b)) =>
            LET r1 == connect_agents(Fabric, a, b, isoformat)
                r2 == disconnect_agents(After(r1), a, b)
            IN  /\ \A x \in Ids : Neighbours(r2.connections, x)
                                      = Neighbours(connections, x)
                /\ r2.communication_channels = communication_channels

\* C7: disconnect_agents(x, y) fails with NotConnected, leaving connections
\* and communication_channels unchanged, exactly when there is no edge
\* between x and y; when there is one it succeeds and removes it from both
\* neighbour lists, whichever argument order created it.
C7_DisconnectIffEdge ==
    \A x \in Ids, y \in Ids :
        LET r == disconnect_agents(Fabric, x, y)
        IN  IF /\ y \notin Neighbours(connections, x)
               /\ x \notin Neighbours(connections, y)
            THEN r.raised = NotConnected /\ Untouched(r)
            ELSE /\ r.raised = None
                 /\ Occurrences(r.connections, x, y)
                        < Occurrences(connections, x, y)
                 /\ Occurrences(r.connections, y, x)
                        < Occurrences(connections, y, x)

\* C8: connect_agents and relay_message with an id that is not registered
\* fail with NotFound and leave the registry, the connection graph and the
\* channel table unchanged.
C8_UnregisteredNotFound ==
    \A s \in Ids, t \in Ids, m \in Messages :
        (s \notin DOMAIN agents \/ t \notin DOMAIN agents) =>
            LET rc == connect_agents(Fabric, s, t, isoformat)
                rr == relay_message(Fabric, s, t, m)
            IN  /\ rc.raised = NotFound /\ Untouched(rc)
                /\ rr.raised = NotFound /\ Untouched(rr)

\* C8 witness: a connect_agents call has just failed with NotFound on a
\* fabric that holds an agent, an edge and a channel.
C8_Witness ==
    /\ last.op = "connect_agents"
    /\ last.raised = NotFound
    /\ DOMAIN agents # {}
    /\ DOMAIN communication_channels # {}
    /\ \E a \in Ids : Neighbours(connections, a) # {}

\* C9: relay_message(a, c, msg) between registered agents without an edge
\* fails with NotConnected.
C9_RelayNotConnected ==
    \A a \in DOMAIN agents, c \in DOMAIN agents, m \in Messages :
        (a # c /\ c \notin Neighbours(connections, a)) =>
            relay_message(Fabric, a, c, m).raised = NotConnected

\* C10: register_agent(id, domain) on a registered id fails with Duplicate
\* and leaves every record, edge and channel as it is; on a new id it adds
\* the one record, idle and with zero counters, and changes nothing else.
C10_Register ==
    \A id \in Ids, domain \in Domains :
        LET r == register_agent(Fabric, id, domain)
        IN  IF id \in DOMAIN agents
            THEN r.raised = Duplicate /\ Untouched(r)
            ELSE /\ r.raised = None
                 /\ DOMAIN r.agents = DOMAIN agents \cup {id}
                 /\ \A o \in DOMAIN agents : r.agents[o] = agents[o]
                 /\ r.agents[id].agent_id = id
                 /\ r.agents[id].domain = domain
                 /\ r.agents[id].status = "idle"
                 /\ r.agents[id].resources =
                        [cpu_usage |-> 0, memory_usage |-> 0,
                         active_connections |-> 0]
                 /\ r.connections = connections
                 /\ r.communication_channels = communication_channels

\* C10 witness: a register_agent call has just failed with Duplicate while
\* every id is registered, none of the agents is idle any more, the domains
\* differ and there is an edge with its channel.
C10_Witness ==
    /\ last.op = "register_agent"
    /\ last.raised = Duplicate
    /\ DOMAIN agents = Ids
    /\ \A a \in Ids : agents[a].status # "idle"
    /\ \E a \in Ids, b \in Ids : agents[a].domain # agents[b].domain
    /\ DOMAIN communication_channels # {}

\* The failure the specification names for removing a connected agent.
HasConnections == "FabricConnectionError: has connections"

\* C11: unregister(a) fails with HasConnections while a has a neighbour and
\* leaves a's record as it is; it removes the record when a has none; and
\* no edge or channel references an id that is not registered.
C11_Unregister ==
    /\ \A a \in DOMAIN agents :
           LET r == unregister(Fabric, a)
           IN  IF Neighbours(connections, a) # {}
               THEN /\ r.raised = HasConnections
                    /\ a \in DOMAIN r.agents
                    /\ r.agents[a] = agents[a]
               ELSE /\ r.raised = None
                    /\ a \notin DOMAIN r.agents
    /\ \A a \in DOMAIN connections :
           Neighbours(connections, a) # {} =>
               /\ a \in DOMAIN agents
               /\ Neighbours(connections, a) \subseteq DOMAIN agents
    /\ \A k \in DOMAIN communication_channels :
           /\ communication_channels[k].source \in DOMAIN agents
           /\ communication_channels[k].target \in DOMAIN agents

\* C12: for registered and connected agents a and b, connect_agents has
\* installed a channel on b, and after relay_message(a, b, m) the next
\* receive_message() on b returns m.
C12_RelayDelivers ==
    \A a \in DOMAIN agents, b \in DOMAIN agents, m \in Messages :
        (a # b /\ b \in Neighbours(connections, a)) =>
            LET r == relay_message(Fabric, a, b, m)
            IN  /\ r.agents[b].communication_channel # None
                /\ \E message \in RecvResults :
                       receive_message(r.agents[b], message).returned = m

\* The failure the specification names for a send without a channel.
NoChannel == "NoChannel"

\* C13: send_message by an agent that has no channel fails with NoChannel,
\* and no send_message returns normally with nothing handed to a channel.
C13_SendWithoutChannel ==
    \A a \in DOMAIN agents, recipient \in Ids, m \in Messages :
        LET s == send_message(agents[a], recipient, m)
        IN  /\ agents[a].communication_channel = None
                => s.raised = NoChannel
            /\ s.raised = None => s.sent # None

\* The contents a sent to b, and the contents b received, in order.
SentTo(a, b) ==
    LET keep(e) == e.from = a /\ e.to = b
    IN  [i \in 1..Len(SelectSeq(sent, keep)) |->
             SelectSeq(sent, keep)[i].content]

ReceivedBy(b) ==
    LET keep(e) == e.by = b
    IN  [i \in 1..Len(SelectSeq(received, keep)) |->
             SelectSeq(received, keep)[i].content]

\* C14: messages sent from a to b over the channel of their connection are
\* received by b in the order sent and none is lost: while b has received
\* nothing, receive_message on b returns the first message some connected
\* sender sent it, and what b has received from a single sender is a prefix
\* of what that sender sent.
C14_FifoNoLoss ==
    \A b \in DOMAIN agents :
        LET senders == {a \in DOMAIN agents :
                            /\ a # b
                            /\ b \in Neighbours(connections, a)
                            /\ Len(SentTo(a, b)) > 0}
        IN  /\ (senders # {} /\ Len(ReceivedBy(b)) = 0) =>
                   \E a \in senders, message \in RecvResults :
                       receive_message(agents[b], message).returned
                           = SentTo(a, b)[1]
            /\ \A a \in senders :
                   senders = {a} =>
                       /\ Len(ReceivedBy(b)) <= Len(SentTo(a, b))
                       /\ \A i \in 1..Len(ReceivedBy(b)) :
                              ReceivedBy(b)[i] = SentTo(a, b)[i]

\* C15: activate() on an agent whose status is 'active' returns at once,
\* changes nothing and does not run _runtime_loop; from any other status it
\* goes on to set status to 'activating' and to run _runtime_loop, and its
\* last step leaves status 'active' if the loop returned and 'error' if it
\* raised.  An agent in 'error' is among the statuses activate() starts
\* from.
C15_Activate ==
    [][\A t \in Threads :
           (pc'[t] # pc[t] /\ pc'[t].op = "activate") =>
               /\ (Free(t) /\ self.status = "active") =>
                      /\ pc'[t].at = "returned"
                      /\ self' = self
               /\ (Free(t) /\ self.status # "active") =>
                      /\ pc'[t].at = "line53"
                      /\ self' = self
               /\ pc[t].at = "line53" =>
                      /\ pc'[t].at = "line56"
                      /\ self' = [self EXCEPT !.status = "activating"]
               /\ pc[t].at = "line56" =>
                      /\ pc'[t].at \in {"line57", "line60"}
                      /\ self' = self
               /\ pc[t].at \in {"line57", "line60"} =>
                      /\ pc'[t].at = "returned"
                      /\ self' = [self EXCEPT !.status =
                                     IF pc[t].args[2] = None
                                     THEN "active" ELSE "error"]]_vars

\* An activate() that started from 'error' has returned, its loop returned,
\* and the agent is 'active'.
C15_Witness ==
    \E t \in Threads :
        /\ pc[t] = At("activate", "returned", <<"error", None>>, None)
        /\ self.status = "active"

\* C16: an activate() or deactivate() call whose transition failed (it
\* logged the failure and left status 'error') raises to its caller.
C16_FailureReported ==
    (last.op \in {"activate", "deactivate"} /\ last.log = "error")
        => last.raised # None

\* C17: a deactivate() on a registered agent leaves the registry's ids,
\* every other agent, the connection graph, the channel table and every
\* active_connections counter as they were; an 'inactive' agent is left as
\* it was; from any other status the agent ends 'inactive', or, had it a
\* channel whose close() raises, 'error', and nothing of it but status
\* changes.
C17_DeactivateFrame ==
    [][last'.op = "deactivate" =>
           /\ DOMAIN agents' = DOMAIN agents
           /\ connections' = connections
           /\ communication_channels' = communication_channels
           /\ \A a \in DOMAIN agents :
                  agents'[a].resources = agents[a].resources
           /\ \E a \in DOMAIN agents :
                  /\ \A b \in DOMAIN agents \ {a} : agents'[b] = agents[b]
                  /\ agents[a].status = "inactive" => agents'[a] = agents[a]
                  /\ agents[a].status # "inactive" =>
                         agents'[a].status \in {"inactive", "error"}
                  /\ \A ch \in {None, Channel}, close \in CloseOutcomes :
                         LET agent == [agents[a] EXCEPT
                                           !.communication_channel = ch]
                             after == deactivate(agent, close)
                         IN  /\ agent.status = "inactive" => after = agent
                             /\ agent.status # "inactive" =>
                                    after = [agent EXCEPT !.status =
                                                IF ch # None /\ close # None
                                                THEN "error"
                                                ELSE "inactive"]]_vars

\* A deactivate() has taken a connected agent to 'inactive'.
C17_Witness ==
    /\ last.op = "deactivate"
    /\ last.log = "info"
    /\ \E a \in DOMAIN agents :
           /\ agents[a].status = "inactive"
           /\ Neighbours(connections, a) # {}

\* The failure the specification names for a re-entrant transition.
TransitionInProgress == "TransitionInProgress"

\* C18: a call of activate() that finds the agent 'activating', or of
\* deactivate() that finds it 'deactivating', has been rejected with
\* TransitionInProgress: it is not on its way to the runtime loop or the
\* channel release and assigns nothing to status.
C18_NoReentry ==
    \A t \in Threads :
        \/ pc[t].op = "activate" /\ pc[t].args[1] = "activating"
        \/ pc[t].op = "deactivate" /\ pc[t].args[1] = "deactivating"
        => /\ pc[t].at = "returned"
           /\ pc[t].raised = TransitionInProgress

\* C19: register_agent and disconnect_agents are critical sections: two
\* calls of register_agent with one id do not both succeed, and no call of
\* disconnect_agents fails on the del of a channel entry that another call
\* deleted after this one's test.
C19_MutualExclusion ==
    /\ \A t \in Threads, u \in Threads :
           ~ /\ t # u
             /\ pc[t].op = "register_agent" /\ pc[u].op = "register_agent"
             /\ pc[t].at = "returned" /\ pc[u].at = "returned"
             /\ pc[t].raised = None /\ pc[u].raised = None
             /\ pc[t].args[1] = pc[u].args[1]
    /\ \A t \in Threads : pc[t].raised # KeyError

\* C20: distinct ordered pairs of registered ids have distinct keys in
\* communication_channels; connect_agents on a pair leaves the entry of
\* every other pair as it was; and disconnect_agents on a pair that
\* is not connected in either direction fails with NotConnected and changes
\* nothing.
C20_KeysDistinct ==
    \A s \in DOMAIN agents, t \in DOMAIN agents :
        /\ \A u \in DOMAIN agents, v \in DOMAIN agents :
               <<s, t>> # <<u, v>> => ChannelKey(s, t) # ChannelKey(u, v)
        /\ LET r == connect_agents(Fabric, s, t, isoformat)
           IN  \A k \in DOMAIN communication_channels :
                   <<communication_channels[k].source,
                     communication_channels[k].target>> # <<s, t>> =>
                       /\ k \in DOMAIN r.communication_channels
                       /\ r.communication_channels[k]
                              = communication_channels[k]
        /\ (Occurrences(connections, s, t) = 0
                /\ Occurrences(connections, t, s) = 0) =>
               LET r == disconnect_agents(Fabric, s, t)
               IN  /\ r.raised = NotConnected
                   /\ r.communication_channels = communication_channels

====
